---- MODULE Spec2Model ----
(***************************************************************************)
(* Model of the review pipelines of handson2/sis_snowretail_analysis_mvp.py *)
(* (the same functions appear unchanged in                                  *)
(* sis_snowretail_analysis_voice_only.py).                                  *)
(*                                                                          *)
(* CUSTOMER_ANALYSIS is the sequence of its rows in insertion order (the     *)
(* order of analysis_id); the other tables are bags of rows.  Every         *)
(* call of snowflake_session.sql(...).collect() is a remote call: it either *)
(* returns or raises.  A Streamlit session runs one handler at a time; the  *)
(* locals of the handler it runs are kept in sess[s].                       *)
(*                                                                          *)
(* Strings are ASCII transliterations of the Japanese literals of the       *)
(* source: "sonota" is the category 'その他', "kakaku" is '価格'.            *)
(***************************************************************************)
EXTENDS Naturals, Integers, Sequences, FiniteSets, Bags, TLC

\* ---------------------------------------------------------------- bounds
\* Reviews in CUSTOMER_REVIEWS: when one pipeline runs alone, and when all
\* pipelines and the category operations act on the same tables.
MaxReviews == 2
MaxReviewsAll == 1
\* Result entries in one COMPLETE response.
MaxEntries == 2
\* Rows of REVIEW_WORDS, which also holds no more rows than there are
\* reviews (a batch that would exceed it is not taken).
MaxWordRows == 2
\* Messages in the history of the analyst chat (a prompt is taken while
\* its two messages fit).
MaxMessages == 4
\* Rows of REVIEW_WORDS when there are more than MaxReviews reviews: the
\* batches taken then are those that insert no row (no entry, no complete
\* word, or a first INSERT that raises).
MaxWordRowsBatches == 0

\* ------------------------------------------------------ program constants
\* SPLIT_TEXT_RECURSIVE_CHARACTER(?, 'none', 300, 30)
ChunkSize == 300
ChunkOverlap == 30
\* batch_size = 10 in extract_important_words
batch_size == 10

\* DEFAULT_CATEGORIES: nine names in the source.  The code only tests names
\* for equality and uses the last one as the fallback label, so the model
\* keeps one ordinary name and the last one.
DEFAULT_CATEGORIES == <<"kakaku", "sonota">>

\* classification.get('label', 'その他')
DefaultLabel == "sonota"

\* ------------------------------------------------------------ input sets
\* Lengths of review texts (one chunk, two chunks).
TextLens == {120, 350}
\* Values SNOWFLAKE.CORTEX.SENTIMENT may return (range -1..1).
Scores == {-1, 1}
\* Names an operator selects or types in render_category_management.
CategoryNames == {"kakaku", "sonota", "shinki"}
\* A name of 101 characters: one more than category_name VARCHAR(100) holds.
LongName == "name_of_101_characters"
\* Arguments add_review_category may be called with: the names above, the
\* empty string, the name of 101 characters.
CategoryArgs == CategoryNames \cup {"", LongName}
\* ORDER BY category_name: the collation order of the names a row can hold.
CategoryOrder == <<"", "kakaku", "shinki", "sonota">>
Sessions == {1, 2}
\* A review_id in a COMPLETE response that is no id of CUSTOMER_REVIEWS.
UnknownReviewId == "r_unknown"
\* Python None (a missing 'review_id'), stored as SQL NULL.
NoneId == "None"
\* 'enum': ['名詞', '動詞', '形容詞'] of the response_format schema
\* (noun, verb, adjective).
WordTypes == {"meishi", "doushi", "keiyoushi"}
\* Word entries of a COMPLETE response: a complete one, one without
\* 'frequency', one whose type is '副詞' (adverb), not of the enum; the
\* 'words' lists: an incomplete entry before a complete one, two complete
\* entries.
WordOk == [word |-> "w1", type |-> "meishi", frequency |-> 1]
WordNoFrequency == [word |-> "w2", type |-> "doushi"]
WordOtherType == [word |-> "w3", type |-> "fukushi", frequency |-> 1]
WordLists == {<<WordNoFrequency, WordOk>>, <<WordOk, WordOtherType>>}
\* Similarities and the min_score slider (0.0 .. 1.0, step 0.05) count in
\* steps of 0.05: cosine similarities 0.1 and 0.5 of a Segment to the
\* query; min_score 0.0 and 0.2 (the default); top_k of the slider 1..20.
Sims == {2, 10}
MinScores == {0, 4}
TopKs == {1, 2}
\* Values of department and document_type in snow_retail_documents (the
\* options of the two multiselects of the RAG page).
Departments == {"dept_a", "dept_b"}
DocumentTypes == {"type_a", "type_b"}
\* review_id values (VARCHAR) of the rows of CUSTOMER_REVIEWS.
ReviewId ==
  <<"r1", "r2", "r3", "r4", "r5", "r6", "r7", "r8", "r9", "r10", "r11",
    "r12", "r13", "r14", "r15", "r16", "r17", "r18", "r19", "r20", "r21">>
\* Numbers of reviews in CUSTOMER_REVIEWS when the batches of
\* extract_important_words are followed: none, one batch, one batch and
\* one review more, two batches and one review more.
BatchReviewCounts == {0, 10, 11, 21}

\* ------------------------------------------------------------- utilities
Range(f) == {f[x] : x \in DOMAIN f}

Min(a, b) == IF a < b THEN a ELSE b

\* All enumerations of the finite set S without repetition.
Orderings(S) ==
  {q \in [1..Cardinality(S) -> S] : \A a, b \in 1..Cardinality(S) : q[a] = q[b] => a = b}

\* The elements of S in the order of seq.
RECURSIVE InOrder(_, _)
InOrder(seq, S) ==
  IF seq = <<>>
    THEN <<>>
    ELSE (IF Head(seq) \in S THEN <<Head(seq)>> ELSE <<>>) \o InOrder(Tail(seq), S)

\* Row orders of a SELECT without ORDER BY over the reviews S: every order
\* of up to MaxReviews reviews; of more reviews, the order of their ids.
SelectionOrders(S) ==
  IF Cardinality(S) <= MaxReviews THEN Orderings(S) ELSE {InOrder(ReviewId, S)}

VARIABLES
  CUSTOMER_REVIEWS,   \* review_id -> length of review_text (source table, read only)
  CUSTOMER_ANALYSIS,  \* Segment rows  [review_id, chunked_text, sentiment_score]
  REVIEW_CATEGORIES,  \* bag of category_name
  REVIEW_TAGS,        \* bag of Tag rows      [review_id, category_name]
  REVIEW_WORDS,       \* bag of Keyword rows  [review_id, word, word_type, frequency]
  sess,               \* per session: the running handler's locals and its outcome
  analyst_messages,   \* per session: st.session_state.analyst_messages
  written,            \* history: per output table, review ids a row was ever inserted for
  gen_failed          \* history: review ids of batches whose COMPLETE call raised

vars == <<CUSTOMER_REVIEWS, CUSTOMER_ANALYSIS, REVIEW_CATEGORIES, REVIEW_TAGS,
          REVIEW_WORDS, sess, analyst_messages, written, gen_failed>>

tables == <<CUSTOMER_REVIEWS, CUSTOMER_ANALYSIS, REVIEW_CATEGORIES, REVIEW_TAGS,
            REVIEW_WORDS>>

\* Before a search: no query, no results.
NoSearch == [sims |-> <<>>, min_score |-> 0, top_k |-> 0, search_results |-> <<>>]

\* A chatbot page before its checks: no prerequisite found missing, no
\* exception raised, no downstream remote call (classifier, Cortex Analyst
\* API, search, completion) issued.
NoPage == [missing |-> "none", raised |-> FALSE, remote_calls |-> {}]

\* No search request built.
NoSearchArgs == [limit |-> 0]

\* Locals of a handler before its first statement.  errors holds the
\* st.error messages of the run as [item, kind]: the review (or the first
\* review of the batch) at hand and the call that raised.  prev_ret is
\* history, kept for process_review_chunks: what it returned when it was
\* the handler that ran just before.  reassigned is history too: in how
\* many result entries of the last batch the review_id was replaced; calls:
\* the COMPLETE calls of the run of extract_important_words; rows_inserted:
\* the INSERTs into REVIEW_WORDS of that run that returned.
Fresh(op) ==
  [op |-> op, pc |-> "idle", ret |-> "None", prev_ret |-> "None", msg |-> "none",
   reviews |-> <<>>, i |-> 0,
   sentiment_score |-> 0, chunks |-> <<>>, chunk_idx |-> 0,
   total_chunks_processed |-> 0,
   categories |-> <<>>, assigned_category |-> "", category_name |-> "",
   processed_count |-> 0, success_count |-> 0, words_extracted |-> 0,
   reassigned |-> 0, calls |-> 0, rows_inserted |-> 0,
   search |-> NoSearch, page |-> NoPage,
   search_args |-> NoSearchArgs, errors |-> {}]

\* The derived tables exist and are empty; CUSTOMER_REVIEWS holds up to n
\* reviews.
InitDerived ==
  /\ CUSTOMER_ANALYSIS = <<>>
  /\ REVIEW_CATEGORIES = EmptyBag
  /\ REVIEW_TAGS = EmptyBag
  /\ REVIEW_WORDS = EmptyBag
  /\ sess = [s \in Sessions |-> Fresh("none")]
  /\ analyst_messages = [s \in Sessions |-> <<>>]
  /\ written = [t \in {"CUSTOMER_ANALYSIS", "REVIEW_TAGS", "REVIEW_WORDS"} |-> {}]
  /\ gen_failed = {}

InitN(n) ==
  /\ CUSTOMER_REVIEWS \in
       UNION {[{ReviewId[k] : k \in 1..m} -> TextLens] : m \in 0..n}
  /\ InitDerived

Idle(s) == sess[s].pc = "idle"

\* The frame of process_review_chunks when session s calls it.
BeginIngest(s) ==
  [Fresh("process_review_chunks") EXCEPT
     !.prev_ret = IF sess[s].op = "process_review_chunks" THEN sess[s].ret ELSE "None"]

ErrorShown(item, kind) == [item |-> item, kind |-> kind]

\* Mutant: the loop stops one review early.
MoreReviewsOffByOne(i, reviews) == i + 1 < Len(reviews)

\* for i, review in enumerate(reviews): is there a review after the i-th
MoreReviews(i, reviews) == i < Len(reviews)

\* return <value> of the running handler.  What stays of its frame is what
\* the page shows: the kind of the last message, the errors shown, the
\* counters printed in the progress text and in the final st.success
\* message, and the category name the add / delete form was submitted with.
Return(s, loc, value, message) ==
  sess' = [sess EXCEPT ![s] =
             [Fresh(loc.op) EXCEPT !.ret = value, !.msg = message,
                                   !.prev_ret = loc.prev_ret,
                                   !.category_name = loc.category_name,
                                   !.errors = loc.errors,
                                   !.total_chunks_processed = loc.total_chunks_processed,
                                   !.processed_count = loc.processed_count,
                                   !.success_count = loc.success_count,
                                   !.words_extracted = loc.words_extracted,
                                   !.reassigned = loc.reassigned,
                                   !.calls = loc.calls,
                                   !.rows_inserted = loc.rows_inserted]]

\* Mutant: a review of a batch whose generation call raised counts as
\* processed.
UnprocessedSkipFailed(rows) ==
  {r \in DOMAIN CUSTOMER_REVIEWS : r \notin gen_failed /\ \A row \in rows : row.review_id # r}

\* Mutant: no anti-join, every review is selected.
UnprocessedAll(rows) == DOMAIN CUSTOMER_REVIEWS

\* SELECT r.* FROM CUSTOMER_REVIEWS r LEFT JOIN <table> t
\*   ON r.review_id = t.review_id WHERE t.review_id IS NULL
\* (rows: the set of rows of <table>)
Unprocessed(rows) ==
  {r \in DOMAIN CUSTOMER_REVIEWS : \A row \in rows : row.review_id # r}

\* ----------------------------------------------------------------------
\* process_review_chunks
\* ----------------------------------------------------------------------

\* SNOWFLAKE.CORTEX.SPLIT_TEXT_RECURSIVE_CHARACTER(text, 'none', 300, 30):
\* windows of at most ChunkSize characters, consecutive windows sharing
\* ChunkOverlap characters.  A chunk is [from, to] (character offsets).
NumChunks(L) ==
  IF L > ChunkSize
    THEN ((L - ChunkOverlap) + (ChunkSize - ChunkOverlap) - 1) \div (ChunkSize - ChunkOverlap)
    ELSE 1

SplitText(L) ==
  [k \in 1..NumChunks(L) |->
     [from |-> (k - 1) * (ChunkSize - ChunkOverlap),
      to   |-> Min(L, (k - 1) * (ChunkSize - ChunkOverlap) + ChunkSize)]]

\* except Exception as e: st.error(...); return False   (the only handler
\* of process_review_chunks, around the whole loop)
prc_abort(s) ==
  Return(s, [sess[s] EXCEPT !.errors = {ErrorShown(sess[s].reviews[sess[s].i], sess[s].pc)}],
         "False", "error")

\* reviews = SELECT ... (unprocessed reviews); if not reviews: return True
prc_select(s) ==
  /\ Idle(s)
  /\ UNCHANGED <<analyst_messages, tables, written, gen_failed>>
  /\ \E q \in Orderings(Unprocessed(Range(CUSTOMER_ANALYSIS))) :
       LET loc == [BeginIngest(s) EXCEPT !.reviews = q] IN
       IF q = <<>>
         THEN Return(s, loc, "True", "info_nothing_to_process")
         ELSE sess' = [sess EXCEPT ![s] = [loc EXCEPT !.pc = "prc_translate", !.i = 1]]

prc_select_fails(s) ==
  /\ Idle(s)
  /\ UNCHANGED <<analyst_messages, tables, written, gen_failed>>
  /\ Return(s, [BeginIngest(s) EXCEPT
                   !.errors = {ErrorShown("", "prc_select")}],
            "False", "error")

\* translated_full_text = TRANSLATE(review['REVIEW_TEXT'], '', 'en')
prc_translate(s) ==
  /\ sess[s].pc = "prc_translate"
  /\ UNCHANGED <<analyst_messages, tables, written, gen_failed>>
  /\ \/ sess' = [sess EXCEPT ![s].pc = "prc_sentiment"]
     \/ prc_abort(s)

\* sentiment_score = SENTIMENT(translated_full_text)
prc_sentiment(s) ==
  /\ sess[s].pc = "prc_sentiment"
  /\ UNCHANGED <<analyst_messages, tables, written, gen_failed>>
  /\ \/ \E score \in Scores :
          sess' = [sess EXCEPT ![s].pc = "prc_split", ![s].sentiment_score = score]
     \/ prc_abort(s)

\* After the inner loop over chunks: progress update, then the next review
\* or st.success(...); return True.
prc_next_review(s, loc) ==
  IF MoreReviews(loc.i, loc.reviews)
    THEN sess' = [sess EXCEPT ![s] = [loc EXCEPT !.pc = "prc_translate", !.i = @ + 1]]
    ELSE Return(s, loc, "True", "success")

\* chunks = SELECT t.value FROM SPLIT_TEXT_RECURSIVE_CHARACTER(...), FLATTEN
prc_split(s) ==
  /\ sess[s].pc = "prc_split"
  /\ UNCHANGED <<analyst_messages, tables, written, gen_failed>>
  /\ \/ LET text   == CUSTOMER_REVIEWS[sess[s].reviews[sess[s].i]]
            chunks == SplitText(text)
            loc    == [sess[s] EXCEPT !.chunks = chunks, !.chunk_idx = 1]
        IN  IF chunks = <<>>
              THEN prc_next_review(s, loc)
              ELSE sess' = [sess EXCEPT ![s] = [loc EXCEPT !.pc = "prc_insert"]]
     \/ prc_abort(s)

\* Mutant: the parameters are bound one column off, the review_id column
\* receives the PRODUCT_ID of the review.
SegmentRowShifted(review_id, chunk, sentiment_score) ==
  [review_id |-> "product_id", chunked_text |-> chunk, sentiment_score |-> sentiment_score]

\* Mutant: the score is taken per chunk (the sign flips after the first).
SegmentRowPerChunk(review_id, chunk, sentiment_score) ==
  [review_id |-> review_id, chunked_text |-> chunk,
   sentiment_score |-> IF chunk.from = 0 THEN sentiment_score ELSE 0 - sentiment_score]

\* The row written for one chunk: review metadata, the chunk, the review's
\* sentiment score.
SegmentRow(review_id, chunk, sentiment_score) ==
  [review_id |-> review_id, chunked_text |-> chunk, sentiment_score |-> sentiment_score]

\* Mutant: the chunks are taken from the last to the first.
ChunkAtReversed(chunks, chunk_idx) == chunks[Len(chunks) + 1 - chunk_idx]

\* for chunk_idx, chunk in enumerate(chunks): the chunk of one iteration
\* (chunk_idx counts from 1 here).
ChunkAt(chunks, chunk_idx) == chunks[chunk_idx]

\* INSERT INTO CUSTOMER_ANALYSIS ... ; total_chunks_processed += 1
prc_insert(s) ==
  /\ sess[s].pc = "prc_insert"
  /\ UNCHANGED <<analyst_messages, CUSTOMER_REVIEWS, REVIEW_CATEGORIES, REVIEW_TAGS, REVIEW_WORDS, gen_failed>>
  /\ \/ LET cur == sess[s]
            rid == cur.reviews[cur.i]
            loc == [cur EXCEPT !.total_chunks_processed = @ + 1, !.chunk_idx = @ + 1]
        IN  /\ CUSTOMER_ANALYSIS' =
                 Append(CUSTOMER_ANALYSIS,
                        SegmentRow(rid, ChunkAt(cur.chunks, cur.chunk_idx),
                                   cur.sentiment_score))
            /\ written' = [written EXCEPT !["CUSTOMER_ANALYSIS"] = @ \cup {rid}]
            /\ IF cur.chunk_idx < Len(cur.chunks)
                 THEN sess' = [sess EXCEPT ![s] = loc]
                 ELSE prc_next_review(s, loc)
     \/ /\ UNCHANGED <<CUSTOMER_ANALYSIS, written>>
        /\ prc_abort(s)

process_review_chunks(s) ==
  \/ prc_select(s)
  \/ prc_select_fails(s)
  \/ prc_translate(s)
  \/ prc_sentiment(s)
  \/ prc_split(s)
  \/ prc_insert(s)

\* ----------------------------------------------------------------------
\* REVIEW_CATEGORIES: create_review_management_tables, get/add/delete
\* ----------------------------------------------------------------------

\* The table left when only the rows in the set kept stay.
KeepRows(table, kept) == [row \in kept |-> table[row]]

\* INSERT INTO REVIEW_CATEGORIES SELECT category FROM (VALUES ...)
\*   WHERE category NOT IN (SELECT category_name FROM REVIEW_CATEGORIES)
MissingDefaults(table) ==
  SetToBag({c \in Range(DEFAULT_CATEGORIES) : ~BagIn(c, table)})

create_review_management_tables(s) ==
  /\ Idle(s)
  /\ UNCHANGED <<analyst_messages, CUSTOMER_REVIEWS, CUSTOMER_ANALYSIS, REVIEW_TAGS, REVIEW_WORDS,
                 written, gen_failed>>
  /\ \/ /\ REVIEW_CATEGORIES' = REVIEW_CATEGORIES (+) MissingDefaults(REVIEW_CATEGORIES)
        /\ Return(s, Fresh("create_review_management_tables"), "True", "success")
     \/ /\ UNCHANGED REVIEW_CATEGORIES
        /\ Return(s, Fresh("create_review_management_tables"), "False", "error")

\* SELECT category_name FROM REVIEW_CATEGORIES ORDER BY category_name
RECURSIVE SortRows(_, _)
SortRows(table, k) ==
  IF k > Len(CategoryOrder)
    THEN <<>>
    ELSE [n \in 1..CopiesIn(CategoryOrder[k], table) |-> CategoryOrder[k]]
           \o SortRows(table, k + 1)

get_review_categories(table) == SortRows(table, 1)

\* Mutant: a plain INSERT, without the WHERE NOT EXISTS.
AddCategoryRowsAlways(table, category_name) == table (+) SetToBag({category_name})

\* INSERT INTO REVIEW_CATEGORIES SELECT ?, ? WHERE NOT EXISTS (... = ?)
AddCategoryRows(table, category_name) ==
  IF BagIn(category_name, table) THEN table ELSE table (+) SetToBag({category_name})

\* category_name VARCHAR(100): a longer value makes the statement raise.
FitsColumn(category_name) == category_name # LongName

\* try: INSERT ...; return True   except: st.error(...); return False
\* The function does not look at category_name before the INSERT.
add_review_category(s, category_name) ==
  /\ Idle(s)
  /\ UNCHANGED <<analyst_messages, CUSTOMER_REVIEWS, CUSTOMER_ANALYSIS, REVIEW_TAGS, REVIEW_WORDS,
                 written, gen_failed>>
  /\ LET loc == [Fresh("add_review_category") EXCEPT !.category_name = category_name] IN
     \/ /\ FitsColumn(category_name)
        /\ REVIEW_CATEGORIES' = AddCategoryRows(REVIEW_CATEGORIES, category_name)
        /\ Return(s, loc, "True", "none")
     \/ /\ UNCHANGED REVIEW_CATEGORIES
        /\ Return(s, loc, "False", "error")

\* DELETE FROM REVIEW_CATEGORIES WHERE category_name = ?
DeleteCategoryRows(table, category_name) ==
  KeepRows(table, {n \in DOMAIN table : n # category_name})

\* Mutant: the DELETE has no WHERE clause.
DeleteTagRowsAll(table, category_name) == EmptyBag

\* DELETE FROM REVIEW_TAGS WHERE category_name = ?
DeleteTagRows(table, category_name) ==
  KeepRows(table, {t \in DOMAIN table : t.category_name # category_name})

\* First statement of delete_review_category.  The name comes from the
\* selectbox over get_review_categories() in render_category_management.
drc_delete_category(s, category_name) ==
  /\ Idle(s)
  /\ category_name \in Range(get_review_categories(REVIEW_CATEGORIES))
  /\ UNCHANGED <<analyst_messages, CUSTOMER_REVIEWS, CUSTOMER_ANALYSIS, REVIEW_TAGS, REVIEW_WORDS,
                 written, gen_failed>>
  /\ LET loc == [Fresh("delete_review_category") EXCEPT !.category_name = category_name] IN
     \/ /\ REVIEW_CATEGORIES' = DeleteCategoryRows(REVIEW_CATEGORIES, category_name)
        /\ sess' = [sess EXCEPT ![s] = [loc EXCEPT !.pc = "drc_tags"]]
     \/ /\ UNCHANGED REVIEW_CATEGORIES
        /\ Return(s, loc, "False", "error")

\* Second statement of delete_review_category, then return True.
drc_delete_tags(s) ==
  /\ sess[s].pc = "drc_tags"
  /\ UNCHANGED <<analyst_messages, CUSTOMER_REVIEWS, CUSTOMER_ANALYSIS, REVIEW_CATEGORIES, REVIEW_WORDS,
                 written, gen_failed>>
  /\ \/ /\ REVIEW_TAGS' = DeleteTagRows(REVIEW_TAGS, sess[s].category_name)
        /\ Return(s, sess[s], "True", "none")
     \/ /\ UNCHANGED REVIEW_TAGS
        /\ Return(s, sess[s], "False", "error")

delete_review_category(s) ==
  \/ \E category_name \in Range(CategoryOrder) : drc_delete_category(s, category_name)
  \/ drc_delete_tags(s)

\* ----------------------------------------------------------------------
\* generate_review_tags
\* ----------------------------------------------------------------------

\* Mutant: the check for an empty category list is missing.
NoCategoriesUnchecked(categories) == FALSE

\* if not categories: st.warning(...); return False
NoCategories(categories) == categories = <<>>

\* categories = get_review_categories()   (returns [] when the query raises)
grt_categories(s) ==
  /\ Idle(s)
  /\ UNCHANGED <<analyst_messages, tables, written, gen_failed>>
  /\ \E categories \in {get_review_categories(REVIEW_CATEGORIES), <<>>} :
       LET loc == [Fresh("generate_review_tags") EXCEPT !.categories = categories] IN
       IF NoCategories(categories)
         THEN Return(s, loc, "False", "warning_no_categories")
         ELSE sess' = [sess EXCEPT ![s] = [loc EXCEPT !.pc = "grt_select"]]

\* reviews = SELECT ... (untagged reviews); if not reviews: return True
\* A failure of this query reaches the outer handler: return False.
grt_select(s) ==
  /\ sess[s].pc = "grt_select"
  /\ UNCHANGED <<analyst_messages, tables, written, gen_failed>>
  /\ \/ \E q \in Orderings(Unprocessed(BagToSet(REVIEW_TAGS))) :
          LET loc == [sess[s] EXCEPT !.reviews = q] IN
          IF q = <<>>
            THEN Return(s, loc, "True", "info_nothing_to_process")
            ELSE sess' = [sess EXCEPT ![s] = [loc EXCEPT !.pc = "grt_classify", !.i = 1]]
     \/ Return(s, [sess[s] EXCEPT !.errors = {ErrorShown("", "grt_select")}],
               "False", "error")

\* processed_count += 1; progress update; next review or
\* st.success(...); return True
grt_next_review(s, loc0) ==
  LET loc == [loc0 EXCEPT !.processed_count = @ + 1] IN
  IF MoreReviews(loc.i, loc.reviews)
    THEN sess' = [sess EXCEPT ![s] = [loc EXCEPT !.pc = "grt_classify", !.i = @ + 1]]
    ELSE Return(s, loc, "True", "success")

\* Mutant: no handler inside the loop, the failure ends the run.
grt_review_abort(s) ==
  Return(s, [sess[s] EXCEPT !.errors =
               @ \cup {ErrorShown(sess[s].reviews[sess[s].i], sess[s].pc)}],
         "False", "error")

\* except Exception as e: st.error(...)   (inside the loop, per review)
grt_review_error(s) ==
  grt_next_review(s, [sess[s] EXCEPT !.errors =
                        @ \cup {ErrorShown(sess[s].reviews[sess[s].i], sess[s].pc)}])

\* What json.loads(result) may be: an object with the label of one of the
\* categories passed to CLASSIFY_TEXT, or an object without 'label'.
Classifications(categories) ==
  {[label |-> c] : c \in Range(categories)} \cup {<<>>}

\* assigned_category = classification.get('label', 'その他')
AssignedCategory(classification) ==
  IF "label" \in DOMAIN classification THEN classification.label ELSE DefaultLabel

\* result = CLASSIFY_TEXT(review_text, categories); json.loads(result)
grt_classify(s) ==
  /\ sess[s].pc = "grt_classify"
  /\ UNCHANGED <<analyst_messages, tables, written, gen_failed>>
  /\ \/ \E classification \in Classifications(sess[s].categories) :
          sess' = [sess EXCEPT ![s].pc = "grt_insert",
                               ![s].assigned_category = AssignedCategory(classification)]
     \/ grt_review_error(s)

TagRow(review_id, category_name) ==
  [review_id |-> review_id, category_name |-> category_name]

\* INSERT INTO REVIEW_TAGS (review_id, category_name, confidence_score)
\* VALUES (?, ?, 1.0); success_count += 1
grt_insert(s) ==
  /\ sess[s].pc = "grt_insert"
  /\ UNCHANGED <<analyst_messages, CUSTOMER_REVIEWS, CUSTOMER_ANALYSIS, REVIEW_CATEGORIES, REVIEW_WORDS,
                 gen_failed>>
  /\ \/ LET rid == sess[s].reviews[sess[s].i] IN
        /\ REVIEW_TAGS' = REVIEW_TAGS (+) SetToBag({TagRow(rid, sess[s].assigned_category)})
        /\ written' = [written EXCEPT !["REVIEW_TAGS"] = @ \cup {rid}]
        /\ grt_next_review(s, [sess[s] EXCEPT !.success_count = @ + 1])
     \/ /\ UNCHANGED <<REVIEW_TAGS, written>>
        /\ grt_review_error(s)

generate_review_tags(s) ==
  \/ grt_categories(s)
  \/ grt_select(s)
  \/ grt_classify(s)
  \/ grt_insert(s)

\* render_category_management: "if submitted and new_category:" calls
\* add_review_category with the (non-empty) text of the form.
category_management(s) ==
  \/ create_review_management_tables(s)
  \/ \E category_name \in CategoryNames : add_review_category(s, category_name)
  \/ delete_review_category(s)

\* ----------------------------------------------------------------------
\* extract_important_words
\* ----------------------------------------------------------------------

\* dict.get(key, default) on a JSON object
Get(obj, key, default) == IF key \in DOMAIN obj THEN obj[key] ELSE default

\* Result entries a response may hold for a batch with these review ids:
\* the id of a review of the batch, an unknown id or no 'review_id'; with
\* or without 'words'.
Entries(batch_ids) ==
  {[review_id |-> r, words |-> w] : r \in batch_ids \cup {UnknownReviewId}, w \in WordLists}
    \cup {[words |-> w] : w \in WordLists}
    \cup {[review_id |-> UnknownReviewId]}

EntryLists(batch_ids) ==
  UNION {[1..n -> Entries(batch_ids)] : n \in 0..MaxEntries}

\* What json.loads(result) may be: the direct JSON shape, the structured
\* output wrapper, an object without 'reviews_analysis', a wrapper with an
\* empty 'structured_output' list or without 'raw_message'.
Responses(batch_ids) ==
  {[reviews_analysis |-> l] : l \in EntryLists(batch_ids)}
    \cup {[structured_output |-> <<[raw_message |-> [reviews_analysis |-> l]]>>] :
            l \in EntryLists(batch_ids)}
    \cup {<<>>, [structured_output |-> <<>>], [structured_output |-> << <<>> >>]}

\* if 'structured_output' in response: ...[0].get('raw_message', {})
\*     .get('reviews_analysis', [])  else: response.get('reviews_analysis', [])
\* raised: the [0] of an empty list raises IndexError.
ReviewsData(response) ==
  IF "structured_output" \in DOMAIN response
    THEN IF response.structured_output = <<>>
           THEN [raised |-> TRUE, reviews_data |-> <<>>]
           ELSE [raised |-> FALSE,
                 reviews_data |->
                   Get(Get(response.structured_output[1], "raw_message", <<>>),
                       "reviews_analysis", <<>>)]
    ELSE [raised |-> FALSE, reviews_data |-> Get(response, "reviews_analysis", <<>>)]

\* Mutant: the fallback always takes the first review of the batch.
ReconcileIdFirst(review_id, batch, local_processed) ==
  IF review_id = NoneId \/ review_id \notin Range(batch)
    THEN IF local_processed < Len(batch) THEN batch[1] ELSE review_id
    ELSE review_id

\* if not review_id or review_id not in batch_reviews_ids:
\*     if local_processed < len(batch): review_id = batch[local_processed]
ReconcileId(review_id, batch, local_processed) ==
  IF review_id = NoneId \/ review_id \notin Range(batch)
    THEN IF local_processed < Len(batch) THEN batch[local_processed + 1] ELSE review_id
    ELSE review_id

\* all(k in word for k in ['word', 'type', 'frequency'])
ValidWord(word) == {"word", "type", "frequency"} \subseteq DOMAIN word

WordRow(review_id, word) ==
  [review_id |-> review_id, word |-> word.word, word_type |-> word.type,
   frequency |-> word.frequency]

\* Mutant: an incomplete word entry ends the loop over the words (break
\* for continue).
RECURSIVE WordsLoopBreak(_, _, _)
WordsLoopBreak(review_id, words_data, st) ==
  IF words_data = <<>>
    THEN st
    ELSE LET word == Head(words_data) IN
         IF ~ValidWord(word)
           THEN st
           ELSE IF st.inserts + 1 = st.fail_at
                  THEN [st EXCEPT !.raised = TRUE]
                  ELSE WordsLoopBreak(review_id, Tail(words_data),
                                 [st EXCEPT !.rows = @ (+) SetToBag({WordRow(review_id, word)}),
                                            !.inserts = @ + 1,
                                            !.local_words_count = @ + 1])

\* for word in words_data: validate, INSERT INTO REVIEW_WORDS,
\* local_words_count += 1.  st.inserts counts the INSERTs done in this
\* batch; the INSERT number st.fail_at raises.
RECURSIVE WordsLoop(_, _, _)
WordsLoop(review_id, words_data, st) ==
  IF words_data = <<>>
    THEN st
    ELSE LET word == Head(words_data) IN
         IF ~ValidWord(word)
           THEN WordsLoop(review_id, Tail(words_data), st)
           ELSE IF st.inserts + 1 = st.fail_at
                  THEN [st EXCEPT !.raised = TRUE]
                  ELSE WordsLoop(review_id, Tail(words_data),
                                 [st EXCEPT !.rows = @ (+) SetToBag({WordRow(review_id, word)}),
                                            !.inserts = @ + 1,
                                            !.local_words_count = @ + 1])

\* for review_data in reviews_data: ... words_extracted += local_words_count;
\* local_processed += 1.  st.attributed lists, per entry handled, the
\* review_id of the entry (raw) and the one its words are stored under.
RECURSIVE EntriesLoop(_, _, _)
EntriesLoop(batch, reviews_data, st) ==
  IF reviews_data = <<>>
    THEN st
    ELSE LET review_data == Head(reviews_data)
             raw         == Get(review_data, "review_id", NoneId)
             review_id   == ReconcileId(raw, batch, st.local_processed)
             words_data  == Get(review_data, "words", <<>>)
             after       == WordsLoop(review_id, words_data,
                                      [st EXCEPT !.local_words_count = 0,
                                                 !.attributed =
                                                   Append(@, [raw |-> raw,
                                                              review_id |-> review_id])])
         IN  IF after.raised
               THEN after
               ELSE EntriesLoop(batch, Tail(reviews_data),
                                [after EXCEPT !.words_extracted = @ + after.local_words_count,
                                              !.local_processed = @ + 1])

\* Number of INSERTs a response leads to when none raises.
RECURSIVE NumInserts(_)
NumInserts(reviews_data) ==
  IF reviews_data = <<>>
    THEN 0
    ELSE Cardinality({k \in DOMAIN Get(Head(reviews_data), "words", <<>>) :
                        ValidWord(Get(Head(reviews_data), "words", <<>>)[k])})
           + NumInserts(Tail(reviews_data))

\* reviews = SELECT ... (reviews without REVIEW_WORDS row); if not reviews:
\* return True.  A failure of this query reaches the outer handler.
ew_select(s) ==
  /\ Idle(s)
  /\ UNCHANGED <<analyst_messages, tables, written, gen_failed>>
  /\ \/ \E q \in SelectionOrders(Unprocessed(BagToSet(REVIEW_WORDS))) :
          LET loc == [Fresh("extract_important_words") EXCEPT !.reviews = q] IN
          IF q = <<>>
            THEN Return(s, loc, "True", "info_nothing_to_process")
            ELSE sess' = [sess EXCEPT ![s] = [loc EXCEPT !.pc = "ew_batch"]]
     \/ Return(s, [Fresh("extract_important_words") EXCEPT
                      !.errors = {ErrorShown("", "ew_select")}],
               "False", "error")

\* Mutant: the slice takes one review more, reviews[i:i+batch_size+1].
BatchInclusive(reviews, i) ==
  SubSeq(reviews, i + 1, Min(i + batch_size + 1, Len(reviews)))

\* batch = reviews[i:i+batch_size]
Batch(reviews, i) == SubSeq(reviews, i + 1, Min(i + batch_size, Len(reviews)))

\* Next iteration of "for i in range(0, len(reviews), batch_size)", or
\* st.success(...); return True
ew_next_batch(s, loc) ==
  IF loc.i + batch_size < Len(loc.reviews)
    THEN sess' = [sess EXCEPT ![s] = [loc EXCEPT !.i = @ + batch_size]]
    ELSE Return(s, loc, "True", "success")

\* Mutant: the failure of a batch reaches the outer handler: return False.
ew_batch_abort(s, loc, batch, kind) ==
  Return(s, [loc EXCEPT !.errors = @ \cup {ErrorShown(batch[1], kind)}], "False", "error")

\* Mutant: the handler of a failed batch does not advance processed_count.
ew_batch_error_uncounted(s, loc, batch, kind) ==
  ew_next_batch(s, [loc EXCEPT !.errors = @ \cup {ErrorShown(batch[1], kind)}])

\* except Exception as e: st.error(...); processed_count += len(batch)
ew_batch_error(s, loc, batch, kind) ==
  ew_next_batch(s, [loc EXCEPT !.processed_count = @ + Len(batch),
                               !.errors = @ \cup {ErrorShown(batch[1], kind)}])

\* result = snowflake_session.sql("SELECT SNOWFLAKE.CORTEX.COMPLETE(...)")
\* .collect(): the one generation call of a batch has been issued.
Called(loc) == [loc EXCEPT !.calls = @ + 1]

\* The COMPLETE call of one batch raises.
ew_generation_fails(s) ==
  /\ sess[s].pc = "ew_batch"
  /\ UNCHANGED <<analyst_messages, tables, written>>
  /\ LET batch == Batch(sess[s].reviews, sess[s].i) IN
     /\ gen_failed' = gen_failed \cup Range(batch)
     /\ ew_batch_error(s, Called(sess[s]), batch, "generation")

\* json.loads(result) raises: the response is not JSON.
ew_response_not_json(s) ==
  /\ sess[s].pc = "ew_batch"
  /\ UNCHANGED <<analyst_messages, tables, written, gen_failed>>
  /\ ew_batch_error(s, Called(sess[s]), Batch(sess[s].reviews, sess[s].i), "json")

\* Review ids the entries of a response may carry: the ids of the first
\* MaxReviews reviews of the batch.
ResponseIds(batch) == {batch[k] : k \in 1..Min(Len(batch), MaxReviews)}

\* Locals of one batch before "for review_data in reviews_data".
BatchStart(words_extracted, fail_at) ==
  [rows |-> EmptyBag, inserts |-> 0, local_words_count |-> 0,
   words_extracted |-> words_extracted, local_processed |-> 0, raised |-> FALSE,
   fail_at |-> fail_at, attributed |-> <<>>]

\* Entries of a batch whose review_id the fallback replaced.
Reassigned(attributed) ==
  Cardinality({k \in DOMAIN attributed : attributed[k].review_id # attributed[k].raw})

\* The bound on the rows of REVIEW_WORDS for the reviews at hand.
WordRowBound ==
  IF Cardinality(DOMAIN CUSTOMER_REVIEWS) <= MaxReviews
    THEN Min(MaxWordRows, Cardinality(DOMAIN CUSTOMER_REVIEWS))
    ELSE MaxWordRowsBatches

\* One batch whose COMPLETE call returned JSON: decode, reconcile ids,
\* insert the words, count.
ew_batch(s) ==
  /\ sess[s].pc = "ew_batch"
  /\ UNCHANGED <<analyst_messages, CUSTOMER_REVIEWS, CUSTOMER_ANALYSIS, REVIEW_CATEGORIES, REVIEW_TAGS,
                 gen_failed>>
  /\ LET cur   == Called(sess[s])
         batch == Batch(cur.reviews, cur.i)
     IN  \E response \in Responses(ResponseIds(batch)) :
           LET decoded == ReviewsData(response) IN
           \E fail_at \in 0..NumInserts(decoded.reviews_data) :
             LET res == IF decoded.raised
                          THEN [BatchStart(cur.words_extracted, fail_at) EXCEPT
                                  !.raised = TRUE]
                          ELSE EntriesLoop(batch, decoded.reviews_data,
                                           BatchStart(cur.words_extracted, fail_at))
                 loc == [cur EXCEPT !.words_extracted = res.words_extracted,
                                    !.reassigned = Reassigned(res.attributed),
                                    !.rows_inserted = @ + BagCardinality(res.rows)]
             IN  /\ BagCardinality(REVIEW_WORDS (+) res.rows) <= WordRowBound
                 /\ REVIEW_WORDS' = REVIEW_WORDS (+) res.rows
                 /\ written' = [written EXCEPT !["REVIEW_WORDS"] =
                                  @ \cup {row.review_id : row \in BagToSet(res.rows)}]
                 /\ IF res.raised
                      THEN ew_batch_error(s, loc, batch,
                                          IF decoded.raised THEN "index" ELSE "insert")
                      ELSE ew_next_batch(s, [loc EXCEPT !.processed_count = @ + Len(batch)])

extract_important_words(s) ==
  \/ ew_select(s)
  \/ ew_generation_fails(s)
  \/ ew_response_not_json(s)
  \/ ew_batch(s)

\* ----------------------------------------------------------------------
\* render_vector_search
\* ----------------------------------------------------------------------

\* FROM CUSTOMER_ANALYSIS ca JOIN CUSTOMER_REVIEWS r ON ca.review_id =
\* r.review_id LEFT JOIN REVIEW_TAGS t ON r.review_id = t.review_id
\* WHERE similarity_score >= ?      A row names its Segment by the position
\* of the Segment in CUSTOMER_ANALYSIS; sims[k] is the cosine similarity of
\* Segment k to the query.
SearchRows(sims, min_score) ==
  {[segment |-> k, review_id |-> CUSTOMER_ANALYSIS[k].review_id,
    category_name |-> c, similarity_score |-> sims[k]] :
     <<k, c>> \in
       {kc \in (DOMAIN CUSTOMER_ANALYSIS) \X (CategoryNames \cup {"NULL"}) :
          LET rid == CUSTOMER_ANALYSIS[kc[1]].review_id IN
          /\ rid \in DOMAIN CUSTOMER_REVIEWS
          /\ IF \A t \in BagToSet(REVIEW_TAGS) : t.review_id # rid
               THEN kc[2] = "NULL"
               ELSE BagIn(TagRow(rid, kc[2]), REVIEW_TAGS)
          /\ sims[kc[1]] >= min_score}}

\* Mutant: ORDER BY similarity_score ASC.
RankedAscending(q) ==
  \A a, b \in DOMAIN q : a < b => q[a].similarity_score <= q[b].similarity_score

\* ORDER BY similarity_score DESC
Ranked(q) ==
  \A a, b \in DOMAIN q : a < b => q[a].similarity_score >= q[b].similarity_score

\* The result lists the query may return: some descending order of the
\* rows (ties in any order), cut by LIMIT ?
SearchResults(sims, min_score, top_k) ==
  {SubSeq(q, 1, Min(top_k, Len(q))) :
     q \in {o \in Orderings(SearchRows(sims, min_score)) : Ranked(o)}}

\* "if search_query and search_button:" the query runs as one statement;
\* results or the "no results" warning are shown, or st.error when it raises.
render_vector_search(s) ==
  /\ Idle(s)
  /\ UNCHANGED <<analyst_messages, tables, written, gen_failed>>
  /\ \/ \E sims \in [DOMAIN CUSTOMER_ANALYSIS -> Sims], min_score \in MinScores,
           top_k \in TopKs :
          \E results \in SearchResults(sims, min_score, top_k) :
            sess' = [sess EXCEPT ![s] =
                       [Fresh("render_vector_search") EXCEPT
                          !.ret = "None",
                          !.msg = IF results = <<>> THEN "warning_no_results" ELSE "success",
                          !.search = [sims |-> sims, min_score |-> min_score,
                                      top_k |-> top_k, search_results |-> results]]]
     \/ sess' = [sess EXCEPT ![s] =
                   [Fresh("render_vector_search") EXCEPT
                      !.msg = "error",
                      !.errors = {ErrorShown("", "render_vector_search")}]]

\* ----------------------------------------------------------------------
\* Chatbot pages: the prerequisite checks and the calls behind them
\* ----------------------------------------------------------------------

\* The frame a chatbot page leaves: the message shown last, the st.error
\* messages, and what happened on the way.
PageShown(op, message, errors, page) ==
  [Fresh(op) EXCEPT !.msg = message, !.errors = errors, !.page = page]

\* What handling one prompt of the analyst chat may run into: an answer;
\* an answer whose TRANSLATE raised; an answer whose SQL raised; a response
\* with status >= 400; a response without message.content (or one that is
\* not JSON); a request that raised; "import _snowflake" raising
\* ImportError.
AnalystOutcomes ==
  {"answer", "translate_error", "sql_error", "api_error_status", "malformed_response",
   "api_raises", "import_error"}

\* The outcomes that reach "except Exception as e" around the request.
AnalystRaising == {"api_error_status", "malformed_response", "api_raises"}

\* st.session_state.analyst_messages.append({"role": "user", ...})
UserMessage == [role |-> "user", content |-> "prompt"]

\* Mutant: the handler around the request shows the error and appends
\* nothing.
AssistantMessagesErrorShownOnly(outcome) ==
  IF outcome \in AnalystRaising \cup {"stage_error"}
    THEN <<>>
    ELSE <<[role |-> "assistant",
            content |-> CASE outcome = "translate_error" -> "english"
                          [] outcome = "import_error" -> "mock"
                          [] OTHER -> "translated",
            result |-> IF outcome = "sql_error" THEN "None" ELSE "data"]>>

\* The st.session_state.analyst_messages.append({"role": "assistant", ...})
\* statements one prompt runs through: the one after the SQL was run
\* (content: the response text, translated unless TRANSLATE raised;
\* result: None when the SQL raised), the one of the mock answer, the one
\* of the handler around the request ("stage_error": the stage check of
\* sis_snowretail_analysis_only.py raised).
AssistantMessages(outcome) ==
  IF outcome \in AnalystRaising \cup {"stage_error"}
    THEN <<[role |-> "assistant", content |-> "error", result |-> "None"]>>
    ELSE <<[role |-> "assistant",
            content |-> CASE outcome = "translate_error" -> "english"
                          [] outcome = "import_error" -> "mock"
                          [] OTHER -> "translated",
            result |-> IF outcome = "sql_error" THEN "None" ELSE "data"]>>

\* if prompt := st.chat_input(...): the messages of the history after the
\* prompt was handled.
PromptHandled(messages, outcome) ==
  (messages \o <<UserMessage>>) \o AssistantMessages(outcome)

\* What the page shows after a prompt: error_message is the kind of the
\* st.error of the handler around the request.
AnalystShown(op, outcome, error_message, error_kind) ==
  PageShown(op,
            IF outcome \in AnalystRaising THEN error_message ELSE "answer",
            CASE outcome \in AnalystRaising -> {ErrorShown("", error_kind)}
              [] outcome = "sql_error" -> {ErrorShown("", "sql")}
              [] outcome = "import_error" -> {ErrorShown("", "import")}
              [] OTHER -> {},
            [missing |-> "none", raised |-> outcome \in AnalystRaising,
             remote_calls |-> IF outcome = "import_error" THEN {} ELSE {"analyst_api"}])

\* mvp render_analyst_chatbot_page: semantic_model_files =
\* get_semantic_model_files(); if not semantic_model_files: st.error(...);
\* return.  Else the clear button empties the history, and a prompt is
\* appended to it, the Cortex Analyst API is called and the answer (or the
\* error text) is appended.
render_analyst_chatbot_page(s) ==
  /\ Idle(s)
  /\ UNCHANGED <<tables, written, gen_failed>>
  /\ \E semantic_model_files \in {<<>>, <<"sales_analysis_model.yaml">>} :
       IF semantic_model_files = <<>>
         THEN /\ UNCHANGED analyst_messages
              /\ sess' = [sess EXCEPT ![s] =
                   PageShown("render_analyst_chatbot_page", "error_no_semantic_model",
                             {ErrorShown("", "no_semantic_model")},
                             [missing |-> "semantic_model", raised |-> FALSE,
                              remote_calls |-> {}])]
         ELSE \/ /\ UNCHANGED analyst_messages
                 /\ sess' = [sess EXCEPT ![s] =
                      PageShown("render_analyst_chatbot_page", "none", {}, NoPage)]
              \/ /\ analyst_messages' = [analyst_messages EXCEPT ![s] = <<>>]
                 /\ sess' = [sess EXCEPT ![s] =
                      PageShown("render_analyst_chatbot_page", "cleared", {}, NoPage)]
              \/ /\ Len(analyst_messages[s]) + 2 <= MaxMessages
                 /\ \E outcome \in AnalystOutcomes :
                      /\ analyst_messages' =
                           [analyst_messages EXCEPT ![s] = PromptHandled(@, outcome)]
                      /\ sess' = [sess EXCEPT ![s] =
                           AnalystShown("render_analyst_chatbot_page", outcome,
                                        "error", "analyst_api")]

\* What st.multiselect may return: some of the options, in some order.
Selections(options) == UNION {Orderings(chosen) : chosen \in SUBSET options}

\* {"@eq": {attribute: value}}
Eq(attribute, value) == [op |-> "@eq", attribute |-> attribute, value |-> value]

\* for dept in selected_departments: dept_conditions.append({"@eq": ...})
EqConditions(attribute, selected) ==
  [k \in DOMAIN selected |-> Eq(attribute, selected[k])]

\* Mutant: the conditions are always joined with "@and".
CombineAnd(op, conditions) ==
  IF Len(conditions) = 1 THEN conditions[1] ELSE [op |-> "@and", args |-> conditions]

\* if len(conditions) == 1: conditions[0]  else: {op: conditions}
Combine(op, conditions) ==
  IF Len(conditions) = 1 THEN conditions[1] ELSE [op |-> op, args |-> conditions]

\* filter_conditions: one entry per attribute with a selection.
FilterConditions(selected_departments, selected_document_types) ==
  (IF selected_departments # <<>>
     THEN <<Combine("@or", EqConditions("department", selected_departments))>>
     ELSE <<>>)
  \o (IF selected_document_types # <<>>
        THEN <<Combine("@or", EqConditions("document_type", selected_document_types))>>
        ELSE <<>>)

\* search_args = {"query": ..., "columns": [...], "limit": 3}; if
\* search_filter: search_args["filter"] = search_filter
SearchArgs(selected_departments, selected_document_types) ==
  LET filter_conditions == FilterConditions(selected_departments, selected_document_types) IN
  IF filter_conditions = <<>>
    THEN [limit |-> 3]
    ELSE [limit |-> 3, filter |-> Combine("@and", filter_conditions)]

\* mvp render_rag_chatbot_page: service_exists =
\* check_search_service_exists(); else: st.error(...); st.info(...); return.
\* Else, on a prompt, the filter is built from the two multiselects, then
\* search_service.search(**search_args) and CompleteText(...).
render_rag_chatbot_page(s) ==
  /\ Idle(s)
  /\ UNCHANGED <<analyst_messages, tables, written, gen_failed>>
  /\ \E service_exists \in BOOLEAN :
       IF ~service_exists
         THEN sess' = [sess EXCEPT ![s] =
                PageShown("render_rag_chatbot_page", "error_no_search_service",
                          {ErrorShown("", "no_search_service")},
                          [missing |-> "search_service", raised |-> FALSE,
                           remote_calls |-> {}])]
         ELSE \E prompt \in BOOLEAN :
                IF ~prompt
                  THEN sess' = [sess EXCEPT ![s] =
                         PageShown("render_rag_chatbot_page", "none", {}, NoPage)]
                  ELSE \E search_raises \in BOOLEAN,
                          selected_departments \in Selections(Departments),
                          selected_document_types \in Selections(DocumentTypes) :
                    sess' = [sess EXCEPT ![s] =
                         [PageShown("render_rag_chatbot_page",
                                    IF search_raises THEN "error" ELSE "answer",
                                    IF search_raises THEN {ErrorShown("", "search")} ELSE {},
                                    [missing |-> "none", raised |-> search_raises,
                                     remote_calls |->
                                       IF search_raises THEN {"search"}
                                                        ELSE {"search", "complete"}])
                            EXCEPT !.search_args =
                              [selected_departments |-> selected_departments,
                               selected_document_types |-> selected_document_types,
                               sent |-> SearchArgs(selected_departments,
                                                   selected_document_types)]]]

\* sis_snowretail_analysis_only.py, "if prompt := st.chat_input(...)": the
\* prompt is appended to the history; LIST @stage; if not file_exists:
\* raise Exception(...); the inner handler shows st.error and re-raises
\* ("raise e"); the outer handler shows the guidance text with st.error
\* and appends the error text.  With the file, the Cortex Analyst API
\* request and the answer.
analyst_only_prompt(s) ==
  /\ Idle(s)
  /\ UNCHANGED <<tables, written, gen_failed>>
  /\ Len(analyst_messages[s]) + 2 <= MaxMessages
  /\ \E file_exists \in BOOLEAN :
       IF ~file_exists
         THEN /\ analyst_messages' =
                   [analyst_messages EXCEPT ![s] = PromptHandled(@, "stage_error")]
              /\ sess' = [sess EXCEPT ![s] =
                   PageShown("analyst_only_prompt", "error_guidance",
                             {ErrorShown("", "stage_check"), ErrorShown("", "guidance")},
                             [missing |-> "semantic_model", raised |-> TRUE,
                              remote_calls |-> {}])]
         ELSE \E outcome \in AnalystOutcomes :
                /\ analyst_messages' =
                     [analyst_messages EXCEPT ![s] = PromptHandled(@, outcome)]
                /\ sess' = [sess EXCEPT ![s] =
                     AnalystShown("analyst_only_prompt", outcome,
                                  "error_guidance", "guidance")]

\* sis_snowretail_analysis_only.py: if st.button(...):
\* st.session_state.analyst_messages = []; st.rerun()
analyst_only_clear(s) ==
  /\ Idle(s)
  /\ UNCHANGED <<tables, written, gen_failed>>
  /\ analyst_messages' = [analyst_messages EXCEPT ![s] = <<>>]
  /\ sess' = [sess EXCEPT ![s] = PageShown("analyst_only_clear", "cleared", {}, NoPage)]

\* sis_snowretail_rag_only.py, "if prompt := st.chat_input(...)": no check
\* of the search service; CompleteText(...) for the keywords, then
\* search_service.search(...), which raises when the service is absent;
\* the handler shows st.error.
rag_only_prompt(s) ==
  /\ Idle(s)
  /\ UNCHANGED <<analyst_messages, tables, written, gen_failed>>
  /\ \E service_exists \in BOOLEAN, complete_raises \in BOOLEAN :
       sess' = [sess EXCEPT ![s] =
         IF complete_raises
           THEN PageShown("rag_only_prompt", "error", {ErrorShown("", "complete")},
                          [missing |-> IF service_exists THEN "none" ELSE "search_service",
                           raised |-> TRUE, remote_calls |-> {"complete"}])
           ELSE IF ~service_exists
                  THEN PageShown("rag_only_prompt", "error", {ErrorShown("", "search")},
                                 [missing |-> "search_service", raised |-> TRUE,
                                  remote_calls |-> {"complete", "search"}])
                  ELSE PageShown("rag_only_prompt", "answer", {},
                                 [missing |-> "none", raised |-> FALSE,
                                  remote_calls |-> {"complete", "search"}])]

chatbot_pages(s) ==
  \/ render_analyst_chatbot_page(s)
  \/ render_rag_chatbot_page(s)
  \/ analyst_only_prompt(s)
  \/ analyst_only_clear(s)
  \/ rag_only_prompt(s)

\* ----------------------------------------------------------------------
\* Specifications
\* ----------------------------------------------------------------------

\* One session, every handler, on the same tables.
Init == InitN(MaxReviewsAll)

Next ==
  \E s \in {1} :
    \/ process_review_chunks(s)
    \/ category_management(s)
    \/ generate_review_tags(s)
    \/ extract_important_words(s)

Spec == Init /\ [][Next]_vars

\* One session running the ingestion pipeline.
InitIngest == InitN(MaxReviews)

NextIngest == \E s \in {1} : process_review_chunks(s)

SpecIngest == InitIngest /\ [][NextIngest]_vars

\* The data preparation page and the search tab.
InitSearch == InitN(MaxReviews)

NextSearch == \E s \in {1} : process_review_chunks(s) \/ render_vector_search(s)

SpecSearch == InitSearch /\ [][NextSearch]_vars

\* The operations with a prerequisite: tagging (categories) and the
\* chatbot pages (semantic model file, search service).
InitPages == InitN(MaxReviewsAll)

NextPages ==
  \E s \in {1} :
    \/ create_review_management_tables(s)
    \/ generate_review_tags(s)
    \/ chatbot_pages(s)

SpecPages == InitPages /\ [][NextPages]_vars

\* Two sessions (two browser tabs on the app), each running the ingestion
\* or the classification pipeline; their remote calls interleave.
InitConcurrent == InitN(MaxReviewsAll)

NextConcurrent ==
  \E s \in Sessions :
    \/ create_review_management_tables(s)
    \/ process_review_chunks(s)
    \/ generate_review_tags(s)

SpecConcurrent == InitConcurrent /\ [][NextConcurrent]_vars

\* The two analyst chats: prompts and clear operations.
InitAnalyst == InitN(MaxReviewsAll)

NextAnalyst ==
  \E s \in Sessions :
    \/ render_analyst_chatbot_page(s)
    \/ analyst_only_prompt(s)
    \/ analyst_only_clear(s)

SpecAnalyst == InitAnalyst /\ [][NextAnalyst]_vars

\* The two RAG chats.
InitRag == InitN(MaxReviews)

NextRag == \E s \in {1} : render_rag_chatbot_page(s) \/ rag_only_prompt(s)

SpecRag == InitRag /\ [][NextRag]_vars

\* The category functions called with any argument.
InitCategories == InitN(MaxReviews)

NextCategories ==
  \E s \in {1} :
    \/ create_review_management_tables(s)
    \/ \E category_name \in CategoryArgs : add_review_category(s, category_name)
    \/ delete_review_category(s)

SpecCategories == InitCategories /\ [][NextCategories]_vars

\* One session managing categories and running the classification pipeline.
InitTags == InitN(MaxReviews)

NextTags ==
  \E s \in {1} :
    \/ category_management(s)
    \/ generate_review_tags(s)

SpecTags == InitTags /\ [][NextTags]_vars

\* One session running the keyword extraction pipeline over several
\* batches of reviews.
InitBatches ==
  /\ CUSTOMER_REVIEWS \in
       {[r \in {ReviewId[k] : k \in 1..n} |-> 120] : n \in BatchReviewCounts}
  /\ InitDerived

NextBatches == \E s \in {1} : extract_important_words(s)

SpecBatches == InitBatches /\ [][NextBatches]_vars

\* The same, the handler that is running keeps running: the script of a
\* session runs to its end once started.
SpecBatchesLive == SpecBatches /\ WF_vars(NextBatches)

\* One session running the keyword extraction pipeline.
InitWords == InitN(MaxReviews)

NextWords == \E s \in {1} : extract_important_words(s)

SpecWords == InitWords /\ [][NextWords]_vars

\* ----------------------------------------------------------------------
\* Properties
\* ----------------------------------------------------------------------

HasSegment(table, r) == \E k \in DOMAIN table : table[k].review_id = r

HasWordRow(table, r) == \E row \in BagToSet(table) : row.review_id = r

\* Number of Tag rows of review r.
TagCount(table, r) ==
  BagCardinality(KeepRows(table, {t \in DOMAIN table : t.review_id = r}))

\* Session s takes the step in which the COMPLETE call of its batch raises.
GenerationFailed(s) ==
  /\ sess[s].pc = "ew_batch"
  /\ \E e \in sess'[s].errors \ sess[s].errors : e.kind = "generation"

\* Session s takes the step in which extract_important_words gets its
\* list of reviews (which it keeps in reviews unless the list is empty).
WordsSelected(s) ==
  /\ Idle(s)
  /\ sess'[s].op = "extract_important_words"
  /\ sess'[s] # sess[s]
  /\ sess'[s].msg # "error"

FailedBatchCounted(s) ==
  GenerationFailed(s) =>
    /\ sess'[s].processed_count =
         sess[s].processed_count + Len(Batch(sess[s].reviews, sess[s].i))
    /\ REVIEW_WORDS' = REVIEW_WORDS

C2_FailureSkipsOneReview ==
  [][\A s \in Sessions :
       (sess[s].op = "process_review_chunks" /\ ~Idle(s) /\ sess'[s].pc = "idle") =>
         \A r \in Range(sess[s].reviews) \ {e.item : e \in sess'[s].errors} :
           HasSegment(CUSTOMER_ANALYSIS', r)]_vars

\* Session s inserts a Segment row.
SegmentInserted(s) ==
  /\ sess[s].pc = "prc_insert"
  /\ Len(CUSTOMER_ANALYSIS') > Len(CUSTOMER_ANALYSIS)

C4_OneScorePerReview ==
  \A j, k \in DOMAIN CUSTOMER_ANALYSIS :
    CUSTOMER_ANALYSIS[j].review_id = CUSTOMER_ANALYSIS[k].review_id =>
      CUSTOMER_ANALYSIS[j].sentiment_score = CUSTOMER_ANALYSIS[k].sentiment_score

\* A review with two Segments, next to a Segment with another score.
C4_TwoSegmentsWitness ==
  \E j, k, m \in DOMAIN CUSTOMER_ANALYSIS :
    /\ j # k
    /\ CUSTOMER_ANALYSIS[j].review_id = CUSTOMER_ANALYSIS[k].review_id
    /\ CUSTOMER_ANALYSIS[m].sentiment_score # CUSTOMER_ANALYSIS[j].sentiment_score

\* Session s inserts a Tag row.
TagInserted(s) ==
  /\ sess[s].pc = "grt_insert"
  /\ REVIEW_TAGS' # REVIEW_TAGS

\* C5: every Tag row generate_review_tags writes has a category_name of the
\* Category set loaded for that run, also when the classifier response has
\* no label and the default category is taken.
C5_TagInLoadedCategories ==
  [][\A s \in Sessions :
       TagInserted(s) =>
         \A row \in BagToSet(REVIEW_TAGS') :
           CopiesIn(row, REVIEW_TAGS') > CopiesIn(row, REVIEW_TAGS) =>
             row.category_name \in Range(sess[s].categories)]_vars

\* Session s calls generate_review_tags and takes its first step.
TagsStarted(s) ==
  /\ Idle(s)
  /\ sess'[s].op = "generate_review_tags"
  /\ sess'[s] # sess[s]

\* C6: called with REVIEW_CATEGORIES empty, generate_review_tags returns
\* False with the "no categories" warning at once: it reaches no classifier
\* call and writes no REVIEW_TAGS row.
C6_NoCategoriesFails ==
  [][\A s \in Sessions :
       (TagsStarted(s) /\ REVIEW_CATEGORIES = EmptyBag) =>
         /\ sess'[s].pc = "idle"
         /\ sess'[s].ret = "False"
         /\ sess'[s].msg = "warning_no_categories"
         /\ REVIEW_TAGS' = REVIEW_TAGS]_vars

\* generate_review_tags has returned False for want of categories while
\* untagged reviews exist.
C6_NoCategoriesWitness ==
  \E s \in Sessions :
    /\ Idle(s)
    /\ sess[s].op = "generate_review_tags"
    /\ sess[s].ret = "False"
    /\ sess[s].msg = "warning_no_categories"
    /\ REVIEW_CATEGORIES = EmptyBag
    /\ \E r \in DOMAIN CUSTOMER_REVIEWS : TagCount(REVIEW_TAGS, r) = 0

\* Session s takes a step of delete_review_category / the step in which
\* it returns.
DeleteStep(s) ==
  /\ sess'[s].op = "delete_review_category"
  /\ sess'[s] # sess[s]

DeleteReturned(s) == DeleteStep(s) /\ sess'[s].pc = "idle"

\* Segments, Keyword records and the Tags of categories other than c stay.
DeleteFrame(c) ==
  /\ CUSTOMER_ANALYSIS' = CUSTOMER_ANALYSIS
  /\ REVIEW_WORDS' = REVIEW_WORDS
  /\ \A t \in BagToSet(REVIEW_TAGS) \cup BagToSet(REVIEW_TAGS') :
       t.category_name # c => CopiesIn(t, REVIEW_TAGS') = CopiesIn(t, REVIEW_TAGS)

\* c is no category any more and no Tag references it.
DeletePost(c) ==
  /\ ~BagIn(c, REVIEW_CATEGORIES')
  /\ \A t \in BagToSet(REVIEW_TAGS') : t.category_name # c

\* C7 as stated: whenever delete_review_category(c) returns, also when one
\* of its DELETE statements raised, c is absent from REVIEW_CATEGORIES and
\* no Tag references c, and Segments, Keyword records and the Tags of
\* other categories are unchanged.
C7_DeleteOnEveryOutcome ==
  [][\A s \in Sessions :
       /\ DeleteStep(s) => DeleteFrame(sess'[s].category_name)
       /\ DeleteReturned(s) => DeletePost(sess'[s].category_name)]_vars

\* C7 amended: when delete_review_category(c) returns True, c is absent
\* from REVIEW_CATEGORIES and no Tag references c; on every outcome
\* Segments, Keyword records and the Tags of other categories are
\* unchanged.
C7_DeleteOnSuccess ==
  [][\A s \in Sessions :
       /\ DeleteStep(s) => DeleteFrame(sess'[s].category_name)
       /\ (DeleteReturned(s) /\ sess'[s].ret = "True") =>
            DeletePost(sess'[s].category_name)]_vars

\* A category has been deleted with its Tag while Segments and Keyword
\* records exist.
C7_DeleteWitness ==
  \E s \in Sessions :
    /\ Idle(s)
    /\ sess[s].op = "delete_review_category"
    /\ sess[s].ret = "True"
    /\ CUSTOMER_ANALYSIS # <<>>
    /\ REVIEW_WORDS # EmptyBag
    /\ \E r \in written["REVIEW_TAGS"] : TagCount(REVIEW_TAGS, r) = 0

\* Session s gets the list of reviews of a run of each pipeline.
IngestSelected(s) == Idle(s) /\ sess'[s].pc = "prc_translate"

TagsSelected(s) == sess[s].pc = "grt_select" /\ sess'[s].pc = "grt_classify"

KeywordsSelected(s) == Idle(s) /\ sess'[s].pc = "ew_batch"

\* C8 as stated: once an output row referencing a review has been written
\* by a pipeline, no later run of that pipeline selects that review.
C8_NeverProcessedAgain ==
  [][\A s \in Sessions :
       /\ IngestSelected(s) =>
            Range(sess'[s].reviews) \cap written["CUSTOMER_ANALYSIS"] = {}
       /\ TagsSelected(s) =>
            Range(sess'[s].reviews) \cap written["REVIEW_TAGS"] = {}
       /\ KeywordsSelected(s) =>
            Range(sess'[s].reviews) \cap written["REVIEW_WORDS"] = {}]_vars

\* C8 amended: for ingestion and keyword extraction as stated; a run of
\* generate_review_tags selects no review that has a Tag row (a review
\* whose Tag delete_review_category removed is classified again).
C8_ProcessedWhileRowExists ==
  [][\A s \in Sessions :
       /\ IngestSelected(s) =>
            Range(sess'[s].reviews) \cap written["CUSTOMER_ANALYSIS"] = {}
       /\ TagsSelected(s) =>
            \A r \in Range(sess'[s].reviews) : TagCount(REVIEW_TAGS, r) = 0
       /\ KeywordsSelected(s) =>
            Range(sess'[s].reviews) \cap written["REVIEW_WORDS"] = {}]_vars

\* Every pipeline has written rows, and a later run of generate_review_tags
\* found no review to classify.
C8_LaterRunWitness ==
  \E s \in Sessions :
    /\ Idle(s)
    /\ sess[s].op = "generate_review_tags"
    /\ sess[s].msg = "info_nothing_to_process"
    /\ REVIEW_TAGS # EmptyBag
    /\ CUSTOMER_ANALYSIS # <<>>
    /\ written["REVIEW_WORDS"] \cap DOMAIN CUSTOMER_REVIEWS # {}

\* Session s takes the step in which its loop over the reviews ends and
\* generate_review_tags returns True.
TagsCompleted(s) ==
  /\ sess[s].op = "generate_review_tags"
  /\ sess[s].pc \in {"grt_classify", "grt_insert"}
  /\ sess'[s].pc = "idle"

\* C9 as stated: when a run of generate_review_tags completes, every
\* review that was untagged at its start has exactly one Tag row.
C9_ExactlyOneTag ==
  [][\A s \in Sessions :
       TagsCompleted(s) =>
         \A r \in Range(sess[s].reviews) : TagCount(REVIEW_TAGS', r) = 1]_vars

\* C9 amended: when a run of generate_review_tags completes, every review
\* that was untagged at its start has exactly one Tag row, except those
\* whose classification or insert raised: they were reported and have none.
C9_OneTagUnlessFailed ==
  [][\A s \in Sessions :
       TagsCompleted(s) =>
         /\ \A r \in Range(sess[s].reviews) :
              TagCount(REVIEW_TAGS', r) =
                IF r \in {e.item : e \in sess'[s].errors} THEN 0 ELSE 1
         /\ sess'[s].success_count =
              Cardinality({r \in Range(sess[s].reviews) : TagCount(REVIEW_TAGS', r) = 1})
         /\ sess'[s].ret = "True"]_vars

\* A run has completed in which one review was tagged and another failed.
C9_CompletedWitness ==
  \E s \in Sessions :
    /\ Idle(s)
    /\ sess[s].op = "generate_review_tags"
    /\ sess[s].ret = "True"
    /\ sess[s].success_count >= 1
    /\ sess[s].errors # {}

\* C10: REVIEW_TAGS holds at most one row per review_id.
C10_AtMostOneTag ==
  \A t \in BagToSet(REVIEW_TAGS) : TagCount(REVIEW_TAGS, t.review_id) <= 1

\* Both of two reviews have their one Tag, and a later run of
\* generate_review_tags found nothing left to classify.
C10_AllTaggedWitness ==
  /\ Cardinality(DOMAIN CUSTOMER_REVIEWS) >= 2
  /\ \A r \in DOMAIN CUSTOMER_REVIEWS : TagCount(REVIEW_TAGS, r) = 1
  /\ \E s \in Sessions :
       /\ Idle(s)
       /\ sess[s].op = "generate_review_tags"
       /\ sess[s].msg = "info_nothing_to_process"

\* Session s takes the step in which classifying or inserting the Tag of
\* its current review raises.
ReviewFailed(s) ==
  /\ sess[s].pc \in {"grt_classify", "grt_insert"}
  /\ sess'[s].errors # sess[s].errors

\* C11: a failure while classifying or inserting the Tag of one review is
\* reported, writes no Tag, and the run goes on with the next review; a
\* run that got past its selection ends with processed_count equal to the
\* number of selected reviews and returns True.
C11_FailureDoesNotStopBatch ==
  [][\A s \in Sessions :
       /\ ReviewFailed(s) =>
            /\ REVIEW_TAGS' = REVIEW_TAGS
            /\ ErrorShown(sess[s].reviews[sess[s].i], sess[s].pc) \in sess'[s].errors
            /\ sess'[s].processed_count = sess[s].processed_count + 1
            /\ IF sess[s].i < Len(sess[s].reviews)
                 THEN /\ sess'[s].pc = "grt_classify"
                      /\ sess'[s].i = sess[s].i + 1
                      /\ sess'[s].reviews = sess[s].reviews
                 ELSE /\ sess'[s].pc = "idle"
                      /\ sess'[s].ret = "True"
       /\ TagsCompleted(s) =>
            /\ sess'[s].processed_count = Len(sess[s].reviews)
            /\ sess'[s].ret = "True"]_vars

\* The first review of a run failed and the second one has been classified.
C11_LaterReviewWitness ==
  \E s \in Sessions :
    /\ sess[s].pc = "grt_insert"
    /\ sess[s].i = 2
    /\ \E e \in sess[s].errors : e.item = sess[s].reviews[1]
    /\ TagCount(REVIEW_TAGS, sess[s].reviews[1]) = 0

\* The batches session s may be at, and what the entry loop attributes for
\* a response when no INSERT raises.
BatchAt(s) == Batch(sess[s].reviews, sess[s].i)

AttributedFor(s, response) ==
  EntriesLoop(BatchAt(s), ReviewsData(response).reviews_data,
              BatchStart(sess[s].words_extracted, 0)).attributed

\* The review_id of a result entry is missing or no id of the batch.
Unmatched(raw, batch) == raw = NoneId \/ raw \notin Range(batch)

\* C12 as stated: an entry whose review_id is missing or matches no review
\* of the batch is attributed to a review of the batch that no earlier
\* entry of the response was attributed to.
C12_FallbackTakesUnmatchedReview ==
  \A s \in Sessions :
    sess[s].pc = "ew_batch" =>
      \A response \in Responses(ResponseIds(BatchAt(s))) :
        ReviewsData(response).raised \/
          LET a == AttributedFor(s, response) IN
          \A k \in DOMAIN a :
            (Unmatched(a[k].raw, BatchAt(s)) /\ a[k].review_id \in Range(BatchAt(s))) =>
              \A j \in DOMAIN a : j < k => a[j].review_id # a[k].review_id

\* C12 amended: an entry whose review_id is missing or matches no review
\* of the batch is attributed to the review at the entry's own position in
\* the batch, whether or not another entry matched that review; past the
\* end of the batch it keeps its review_id.  An entry whose review_id is a
\* review of the batch keeps it.
C12_FallbackTakesOwnPosition ==
  \A s \in Sessions :
    sess[s].pc = "ew_batch" =>
      \A response \in Responses(ResponseIds(BatchAt(s))) :
        ReviewsData(response).raised \/
          LET a == AttributedFor(s, response) IN
          /\ Len(a) = Len(ReviewsData(response).reviews_data)
          /\ \A k \in DOMAIN a :
               a[k].review_id =
                 IF Unmatched(a[k].raw, BatchAt(s)) /\ k <= Len(BatchAt(s))
                   THEN BatchAt(s)[k]
                   ELSE a[k].raw

\* A batch of two reviews has been handled in which the review_id of an
\* entry was replaced, and both entries' words went to the same review.
C12_SharedReviewWitness ==
  \E s \in Sessions :
    /\ Idle(s)
    /\ sess[s].op = "extract_important_words"
    /\ sess[s].ret = "True"
    /\ sess[s].reassigned >= 1
    /\ sess[s].words_extracted = 2
    /\ Cardinality(DOMAIN CUSTOMER_REVIEWS) = 2
    /\ \E r \in DOMAIN CUSTOMER_REVIEWS : ~HasWordRow(REVIEW_WORDS, r)
    /\ \E row \in BagToSet(REVIEW_WORDS) :
         row.review_id \in DOMAIN CUSTOMER_REVIEWS /\ CopiesIn(row, REVIEW_WORDS) = 2

\* C13: every Keyword row of REVIEW_WORDS has a word_type of the closed set
\* noun / verb / adjective, whatever the model responded.
C13_WordTypeInEnum ==
  \A row \in BagToSet(REVIEW_WORDS) : row.word_type \in WordTypes

\* The word entry has the three fields.
HasAllFields(word) ==
  "word" \in DOMAIN word /\ "type" \in DOMAIN word /\ "frequency" \in DOMAIN word

\* C14: no REVIEW_WORDS row stems from a word entry that lacks one of
\* word, type, frequency, and the complete entries of the same list and
\* of the same response are all written: one row each, under the review
\* the result entry is attributed to.
C14_IncompleteEntrySkipped ==
  /\ \A row \in BagToSet(REVIEW_WORDS) : row.word # WordNoFrequency.word
  /\ \A s \in Sessions :
       sess[s].pc = "ew_batch" =>
         \A response \in Responses(ResponseIds(BatchAt(s))) :
           ReviewsData(response).raised \/
             LET rd  == ReviewsData(response).reviews_data
                 res == EntriesLoop(BatchAt(s), rd, BatchStart(sess[s].words_extracted, 0))
             IN  /\ \A k \in DOMAIN rd :
                      LET words == Get(rd[k], "words", <<>>) IN
                      \A j \in DOMAIN words :
                        IF HasAllFields(words[j])
                          THEN BagIn(WordRow(res.attributed[k].review_id, words[j]), res.rows)
                          ELSE \A row \in BagToSet(res.rows) : row.word # words[j].word
                 /\ res.words_extracted = sess[s].words_extracted + BagCardinality(res.rows)
                 /\ ~res.raised

\* A run has written the complete word of a list whose first entry has no
\* 'frequency'.
C14_SkippedWitness ==
  \E s \in Sessions :
    /\ Idle(s)
    /\ sess[s].op = "extract_important_words"
    /\ sess[s].ret = "True"
    /\ sess[s].words_extracted >= 1
    /\ \E row \in BagToSet(REVIEW_WORDS) :
         row.word = WordOk.word /\ row.review_id \in DOMAIN CUSTOMER_REVIEWS

\* Session s shows the results of a search.
SearchShown(s) ==
  /\ Idle(s)
  /\ sess[s].op = "render_vector_search"
  /\ sess[s].msg # "error"

\* C15: the list a search returns is ordered by non-increasing similarity,
\* every row of it has similarity >= min_score, it has at most top_k rows,
\* and no Segment left out has a similarity above that of a returned row.
C15_SearchRanked ==
  \A s \in Sessions :
    SearchShown(s) =>
      LET q == sess[s].search
          r == q.search_results
      IN  /\ \A a, b \in DOMAIN r :
                a < b => r[a].similarity_score >= r[b].similarity_score
          /\ \A a \in DOMAIN r :
                /\ r[a].similarity_score >= q.min_score
                /\ r[a].similarity_score = q.sims[r[a].segment]
          /\ Len(r) <= q.top_k
          /\ \A k \in DOMAIN CUSTOMER_ANALYSIS :
                (\A a \in DOMAIN r : r[a].segment # k) =>
                  \A a \in DOMAIN r : q.sims[k] <= r[a].similarity_score

\* A search returned top_k = 2 rows of different similarity and left out a
\* Segment that passes the threshold.
C15_CutWitness ==
  \E s \in Sessions :
    /\ SearchShown(s)
    /\ Len(sess[s].search.search_results) = 2
    /\ sess[s].search.search_results[1].similarity_score
         > sess[s].search.search_results[2].similarity_score
    /\ \E k \in DOMAIN CUSTOMER_ANALYSIS :
         /\ sess[s].search.sims[k] >= sess[s].search.min_score
         /\ \A a \in 1..2 : sess[s].search.search_results[a].segment # k

\* C17: every Segment row of CUSTOMER_ANALYSIS has the review_id of a
\* review that exists in CUSTOMER_REVIEWS.
C17_SegmentReferencesReview ==
  \A k \in DOMAIN CUSTOMER_ANALYSIS :
    CUSTOMER_ANALYSIS[k].review_id \in DOMAIN CUSTOMER_REVIEWS

\* An ingestion run has completed and both of two reviews have Segments.
C17_SegmentsWitness ==
  /\ Cardinality(DOMAIN CUSTOMER_REVIEWS) = 2
  /\ \A r \in DOMAIN CUSTOMER_REVIEWS : HasSegment(CUSTOMER_ANALYSIS, r)
  /\ \E s \in Sessions :
       Idle(s) /\ sess[s].op = "process_review_chunks" /\ sess[s].ret = "True"

\* C18: an operation that finds its prerequisite missing (no categories,
\* no semantic model file, no search service) ends with a guidance
\* message, without an exception raised and without a downstream remote
\* call.
C18_MissingPrerequisiteReturnsEarly ==
  \A s \in Sessions :
    /\ (Idle(s) /\ sess[s].page.missing # "none") =>
         /\ ~sess[s].page.raised
         /\ sess[s].page.remote_calls = {}
         /\ sess[s].msg \in {"error_no_semantic_model", "error_no_search_service",
                             "error_guidance"}
    /\ (Idle(s) /\ sess[s].op = "generate_review_tags" /\ REVIEW_CATEGORIES = EmptyBag
          /\ sess[s].ret # "None") =>
         /\ sess[s].msg = "warning_no_categories"
         /\ sess[s].errors = {}

\* Session s handles one batch (whatever the response).
BatchHandled(s) ==
  /\ sess[s].pc = "ew_batch"
  /\ sess'[s] # sess[s]

CategoryAdded(s) ==
  /\ Idle(s)
  /\ sess'[s].op = "add_review_category"
  /\ sess'[s] # sess[s]

TablesCreated(s) ==
  /\ Idle(s)
  /\ sess'[s].op = "create_review_management_tables"
  /\ sess'[s] # sess[s]

\* C20: REVIEW_CATEGORIES never holds two rows with the same category_name;
\* adding a name that exists inserts nothing, and creating the tables
\* again inserts no default category that is present.
C20_CategoryNamesUnique ==
  [][/\ \A c \in BagToSet(REVIEW_CATEGORIES') : CopiesIn(c, REVIEW_CATEGORIES') = 1
     /\ \A s \in Sessions :
          /\ (CategoryAdded(s) /\ BagIn(sess'[s].category_name, REVIEW_CATEGORIES)) =>
               REVIEW_CATEGORIES' = REVIEW_CATEGORIES
          /\ TablesCreated(s) =>
               \A c \in BagToSet(REVIEW_CATEGORIES) :
                 CopiesIn(c, REVIEW_CATEGORIES') = CopiesIn(c, REVIEW_CATEGORIES)]_vars

\* A default category name has been added by hand while the defaults and
\* a category of the operator's own are in the table.
C20_ReaddedWitness ==
  \E s \in Sessions :
    /\ Idle(s)
    /\ sess[s].op = "add_review_category"
    /\ sess[s].ret = "True"
    /\ sess[s].category_name \in Range(DEFAULT_CATEGORIES)
    /\ BagToSet(REVIEW_CATEGORIES) = CategoryNames

\* C21: add_review_category called with an empty name or a name the column
\* cannot hold returns False and leaves REVIEW_CATEGORIES as it was.
C21_InvalidNameRejected ==
  [][\A s \in Sessions :
       (CategoryAdded(s) /\ sess'[s].category_name \in {"", LongName}) =>
         /\ sess'[s].ret = "False"
         /\ REVIEW_CATEGORIES' = REVIEW_CATEGORIES]_vars

\* A document of the search index.
Documents == [department : Departments \cup {"dept_c"},
              document_type : DocumentTypes \cup {"type_c"}]

\* Whether a document satisfies a filter: "@eq" compares one attribute,
\* "@and" / "@or" need all / one of their conditions.
RECURSIVE Accepts(_, _)
Accepts(filter, doc) ==
  CASE filter.op = "@eq"  -> doc[filter.attribute] = filter.value
    [] filter.op = "@and" -> \A k \in DOMAIN filter.args : Accepts(filter.args[k], doc)
    [] filter.op = "@or"  -> \E k \in DOMAIN filter.args : Accepts(filter.args[k], doc)

\* The documents a search request asks for.
Matches(sent, doc) == "filter" \in DOMAIN sent => Accepts(sent.filter, doc)

\* A search request was built on the RAG page of session s.
RagSearched(s) ==
  sess[s].op = "render_rag_chatbot_page" /\ "search" \in sess[s].page.remote_calls

\* C22: the request of a RAG search has limit 3; it has no filter when
\* nothing is selected; one selected value of one attribute gives a single
\* "@eq"; several values of an attribute are joined with "@or"; the
\* conditions of the two attributes are joined with "@and"; the request
\* asks for exactly the documents whose department is among the selected
\* departments (if any) and whose type is among the selected types (if any).
C22_SearchFilter ==
  \A s \in Sessions :
    RagSearched(s) =>
      LET dep  == sess[s].search_args.selected_departments
          typ  == sess[s].search_args.selected_document_types
          sent == sess[s].search_args.sent
      IN  /\ sent.limit = 3
          /\ (dep = <<>> /\ typ = <<>>) <=> "filter" \notin DOMAIN sent
          /\ (Len(dep) + Len(typ) = 1) => sent.filter.op = "@eq"
          /\ (Len(dep) > 1 /\ typ = <<>>) =>
                /\ sent.filter.op = "@or"
                /\ \A k \in DOMAIN dep : sent.filter.args[k] = Eq("department", dep[k])
          /\ (dep = <<>> /\ Len(typ) > 1) =>
                /\ sent.filter.op = "@or"
                /\ \A k \in DOMAIN typ : sent.filter.args[k] = Eq("document_type", typ[k])
          /\ (dep # <<>> /\ typ # <<>>) =>
                /\ sent.filter.op = "@and"
                /\ Len(sent.filter.args) = 2
                /\ \A k \in {1, 2} :
                     sent.filter.args[k].op = IF Len(<<dep, typ>>[k]) = 1 THEN "@eq" ELSE "@or"
          /\ \A doc \in Documents :
                Matches(sent, doc) <=>
                  /\ dep # <<>> => doc.department \in Range(dep)
                  /\ typ # <<>> => doc.document_type \in Range(typ)

\* A search was sent with two departments and one document type selected.
C22_TwoDepartmentsWitness ==
  \E s \in Sessions :
    /\ RagSearched(s)
    /\ Len(sess[s].search_args.selected_departments) = 2
    /\ Len(sess[s].search_args.selected_document_types) = 1
    /\ sess[s].search_args.sent.filter.op = "@and"

\* Session s handles one batch.
BatchStep(s) == sess[s].pc = "ew_batch" /\ sess'[s] # sess[s]

\* C23: a run of extract_important_words over N selected reviews handles
\* them in selection order in consecutive batches of 10 (the last one the
\* remainder): the batch at hand starts right after the reviews of the
\* batches before it, each batch takes one generation call, and the run
\* ends after ceil(N / 10) calls.
C23_BatchesPartitionReviews ==
  [][\A s \in Sessions :
       BatchStep(s) =>
         LET reviews == sess[s].reviews
             n       == Len(reviews)
             i       == sess[s].i
             batch   == BatchAt(s)
         IN  /\ i = batch_size * sess[s].calls
             /\ i < n
             /\ Len(batch) = IF n - i >= batch_size THEN batch_size ELSE n - i
             /\ \A k \in DOMAIN batch : batch[k] = reviews[i + k]
             /\ sess'[s].calls = sess[s].calls + 1
             /\ IF sess'[s].pc = "idle"
                  THEN /\ i + Len(batch) = n
                       /\ sess'[s].calls = (n + batch_size - 1) \div batch_size
                  ELSE /\ sess'[s].reviews = reviews
                       /\ sess'[s].i = i + Len(batch)]_vars

\* A run over 21 reviews has returned after three generation calls.
C23_ThreeBatchesWitness ==
  \E s \in Sessions :
    /\ Idle(s)
    /\ sess[s].op = "extract_important_words"
    /\ sess[s].processed_count = 21
    /\ sess[s].calls = 3

\* C24: the batch loop of extract_important_words ends, whatever batches
\* fail; every batch, failed or not, adds its number of reviews to the
\* processed count, which ends at the number of selected reviews.
C24_LoopTerminates ==
  /\ [][\A s \in Sessions :
          BatchStep(s) =>
            /\ sess'[s].processed_count = sess[s].processed_count + Len(BatchAt(s))
            /\ sess'[s].pc = "idle" => sess'[s].processed_count = Len(sess[s].reviews)]_vars
  /\ \A s \in Sessions : (sess[s].pc = "ew_batch") ~> Idle(s)

\* A run over 21 reviews has returned with all 21 counted, the batches of
\* r1 and of r11 having failed.
C24_FailedBatchesWitness ==
  \E s \in Sessions :
    /\ Idle(s)
    /\ sess[s].op = "extract_important_words"
    /\ sess[s].processed_count = 21
    /\ {"r1", "r11"} \subseteq {e.item : e \in sess[s].errors}

\* Session s is handling a review whose sentiment score is not yet
\* computed or whose text is not yet split.
BeforeSegments(s) == sess[s].pc \in {"prc_translate", "prc_sentiment", "prc_split"}

\* C25: a review has no Segment row while its sentiment score is being
\* computed; the Segment rows of a review follow one another in
\* CUSTOMER_ANALYSIS in the order of their chunks in the text, with no row
\* of another review between them.
C25_IngestionOrder ==
  /\ \A s \in Sessions :
       BeforeSegments(s) => ~HasSegment(CUSTOMER_ANALYSIS, sess[s].reviews[sess[s].i])
  /\ \A a, b \in DOMAIN CUSTOMER_ANALYSIS :
       (a < b /\ CUSTOMER_ANALYSIS[a].review_id = CUSTOMER_ANALYSIS[b].review_id) =>
         /\ CUSTOMER_ANALYSIS[a].chunked_text.from < CUSTOMER_ANALYSIS[b].chunked_text.from
         /\ \A c \in a..b : CUSTOMER_ANALYSIS[c].review_id = CUSTOMER_ANALYSIS[a].review_id

\* The two Segments of one review are followed by a Segment of another.
C25_TwoReviewsWitness ==
  /\ Len(CUSTOMER_ANALYSIS) >= 3
  /\ CUSTOMER_ANALYSIS[1].review_id = CUSTOMER_ANALYSIS[2].review_id
  /\ CUSTOMER_ANALYSIS[3].review_id # CUSTOMER_ANALYSIS[1].review_id

\* C26: with two sessions running the pipelines at the same time, no
\* review has two Segment rows for the same chunk, and no review has more
\* than one Tag row.
C26_NoDuplicatesWithoutLocking ==
  /\ \A a, b \in DOMAIN CUSTOMER_ANALYSIS :
       (/\ CUSTOMER_ANALYSIS[a].review_id = CUSTOMER_ANALYSIS[b].review_id
        /\ CUSTOMER_ANALYSIS[a].chunked_text = CUSTOMER_ANALYSIS[b].chunked_text) => a = b
  /\ \A r \in DOMAIN CUSTOMER_REVIEWS : TagCount(REVIEW_TAGS, r) <= 1

\* The number of Segment rows of review r.
SegmentCount(table, r) == Cardinality({k \in DOMAIN table : table[k].review_id = r})

\* Some session is inserting the Segments of review r.
Ingesting(r) ==
  \E s \in Sessions : sess[s].pc = "prc_insert" /\ sess[s].reviews[sess[s].i] = r

\* C27: outside of the run that is inserting its Segments, a review with a
\* Segment row has a Segment row for every chunk of its text.
C27_NoPartialIngestion ==
  \A r \in DOMAIN CUSTOMER_REVIEWS :
    (HasSegment(CUSTOMER_ANALYSIS, r) /\ ~Ingesting(r)) =>
      SegmentCount(CUSTOMER_ANALYSIS, r) = NumChunks(CUSTOMER_REVIEWS[r])

\* C28: every row a batch of extract_important_words inserts into
\* REVIEW_WORDS has the review_id of a review of that batch.
C28_WordRowOfBatchReview ==
  [][\A s \in Sessions :
       BatchStep(s) =>
         \A row \in BagToSet(REVIEW_WORDS' (-) REVIEW_WORDS) :
           row.review_id \in Range(BatchAt(s))]_vars

\* C29: when a run of extract_important_words has finished, the number of
\* extracted words it reports is the number of REVIEW_WORDS rows it
\* inserted.
C29_ReportedWordsAreInsertedRows ==
  \A s \in Sessions :
    (Idle(s) /\ sess[s].op = "extract_important_words" /\ sess[s].msg = "success") =>
      sess[s].words_extracted = sess[s].rows_inserted

\* The history m alternates user and assistant messages, a user message
\* first.
Alternates(m) ==
  /\ Len(m) % 2 = 0
  /\ \A k \in DOMAIN m : m[k].role = IF k % 2 = 1 THEN "user" ELSE "assistant"

\* Session s handles a prompt of the analyst chat.
AnalystPrompted(s) ==
  /\ sess'[s].op \in {"render_analyst_chatbot_page", "analyst_only_prompt"}
  /\ Len(analyst_messages'[s]) > Len(analyst_messages[s])

====
